---------------------------- MODULE Spec2Model ----------------------------
(***************************************************************************)
(* A model of two components of cargo-auditable:                           *)
(*                                                                         *)
(*  - audit-info (src/audit-info/src/lib.rs): the bounded extraction of    *)
(*    the embedded audit data (raw_audit_info_from_reader,                 *)
(*    get_compressed_audit_data, raw_audit_info_from_slice);               *)
(*  - auditable-serde (src/auditable-serde/src/lib.rs): the conversion     *)
(*    From<&cargo_metadata::Metadata> for RawVersionInfo.                  *)
(*                                                                         *)
(* Byte contents are abstracted to lengths: the segment extractor and the  *)
(* decompressor are external crates, whose answers are chosen by the       *)
(* environment within what their contracts allow.  usize is scaled down    *)
(* to UsizeBits bits; on the 64-bit target u64 has the same width.         *)
(* Of a package the conversion copies name, version and source; source    *)
(* takes no part in any decision and is left out.                          *)
(***************************************************************************)
EXTENDS Integers, Sequences, FiniteSets, TLC

VARIABLES
    api,        \* "reader" | "slice": the entry point called
    limits,     \* Limits {input_file_size, decompressed_json_size}
    src,        \* the byte source: [total, eofAt]
    pc,         \* position of the call
    pos,        \* bytes the source has delivered so far
    takeLeft,   \* Take::limit, what the Take adaptor still lets through
    bufLen,     \* input_binary.len()
    payload,    \* the compressed audit data the extractor returned
    outLen,     \* bytes of inflated output held by the decompressor
    result,     \* what the call returned
    metadata,   \* the cargo_metadata::Metadata handed to the conversion
    npc,        \* position of the conversion
    output      \* what the conversion produced

vars == <<api, limits, src, pc, pos, takeLeft, bufLen, payload, outLen,
          result, metadata, npc, output>>

extractVars == <<api, limits, src, pc, pos, takeLeft, bufLen, payload,
                 outLen, result>>

normVars == <<metadata, npc, output>>

----------------------------------------------------------------------------
(* Bounds *)

\* Width of usize (and of u64 on the modelled 64-bit target), scaled down.
UsizeBits == 3

\* Largest decompressed_json_size limit tried; inflated sizes go one beyond.
MaxInflated == 3

\* Largest compressed payload length tried.
MaxCompressed == 2

UsizeMax == 2 ^ UsizeBits - 1

\* isize::MAX: a Vec<u8> never holds more bytes than this.
IsizeMax == 2 ^ (UsizeBits - 1) - 1

Min(a, b) == IF a < b THEN a ELSE b

NoPayload == [clen |-> 0, dlen |-> 0, valid |-> FALSE, present |-> FALSE]

----------------------------------------------------------------------------
(* audit-info: get_compressed_audit_data and its callers *)

\* u64::saturating_add
SaturatingAdd(a, b) == IF a + b > UsizeMax THEN UsizeMax ELSE a + b

IncrementedLimit_NoIncrement(l) == l.input_file_size

\* let incremented_limit = u64::saturating_add(limits.input_file_size as u64, 1);
IncrementedLimit(l) == SaturatingAdd(l.input_file_size, 1)

InputOverLimit_Greater(len, l) == len > IncrementedLimit(l)

\* if input_binary.len() as u64 == incremented_limit
InputOverLimit(len, l) == len = IncrementedLimit(l)

InflateLimit_InputSize(l) == l.input_file_size

\* The max_output_size handed to decompress_to_vec_zlib_with_limit.
InflateLimit(l) == l.decompressed_json_size

PayloadOverLimit_InputSize(p, l) == p.clen > l.input_file_size

\* if compressed_audit_data.len() > limits.decompressed_json_size
PayloadOverLimit(p, l) == p.clen > l.decompressed_json_size

\* impl From<auditable_extract::Error> for Error (error.rs)
ErrorFromExtract == "ExtractionFailed"

\* impl From<the decompressor's error> for Error (error.rs)
ErrorFromInflate(status) ==
    IF status = "LimitExceeded" THEN "OutputLimitExceeded"
    ELSE "DecompressionFailed"

\* What raw_auditable_data may answer on an input of len bytes: no segment,
\* or a slice of the input holding a zlib stream.
Payloads(len) ==
    [clen : 0 .. Min(len, MaxCompressed),
     dlen : 0 .. MaxInflated + 1,
     valid : BOOLEAN,
     present : {TRUE}]

Sources == {s \in [total : 0 .. UsizeMax + 1, eofAt : 0 .. UsizeMax + 1] :
                s.eofAt <= s.total}

LimitsSet == [input_file_size : 0 .. UsizeMax,
              decompressed_json_size : 0 .. MaxInflated]

NormIdle ==
    /\ metadata = "none"
    /\ npc = "idle"
    /\ output = "none"

\* raw_audit_info_from_reader(reader, limits): reader.take(incremented_limit)
InitReader ==
    /\ api = "reader"
    /\ limits \in LimitsSet
    /\ src \in Sources
    /\ pc = "read"
    /\ pos = 0
    /\ takeLeft = IncrementedLimit(limits)
    /\ bufLen = 0
    /\ payload = NoPayload
    /\ outLen = 0
    /\ result = "pending"

\* raw_audit_info_from_slice(input_binary, decompressed_json_size_limit):
\* the whole binary is in memory already, and no input limit applies
\* (input_file_size is held at usize::MAX).
InitSlice ==
    /\ api = "slice"
    /\ limits \in {l \in LimitsSet : l.input_file_size = UsizeMax}
    /\ src \in {s \in Sources : s.eofAt = s.total /\ s.total <= IsizeMax}
    /\ pc = "extract"
    /\ pos = src.total
    /\ takeLeft = 0
    /\ bufLen = src.total
    /\ payload = NoPayload
    /\ outLen = 0
    /\ result = "pending"

InitExtract == (InitReader \/ InitSlice) /\ NormIdle

Finish(r) ==
    /\ pc' = "done"
    /\ result' = r

\* One read of read_to_end through Take: the source delivers k bytes.
ReadChunk ==
    /\ pc = "read"
    /\ takeLeft > 0
    /\ \E k \in 1 .. Min(takeLeft, src.eofAt - pos) :
          /\ bufLen + k <= IsizeMax
          /\ bufLen' = bufLen + k
          /\ pos' = pos + k
          /\ takeLeft' = takeLeft - k
    /\ UNCHANGED <<api, limits, src, pc, payload, outLen, result, normVars>>

\* The buffer cannot grow past isize::MAX: read_to_end fails (an io::Error
\* from try_reserve, or a capacity-overflow panic in older std).
ReadAllocFail ==
    /\ pc = "read"
    /\ takeLeft > 0
    /\ pos < src.eofAt
    /\ bufLen = IsizeMax
    /\ \E r \in {"Io", "Abort"} : Finish(r)
    /\ UNCHANGED <<api, limits, src, pos, takeLeft, bufLen, payload, outLen,
                   normVars>>

\* A read fails: f.read_to_end(&mut input_binary)? returns the io::Error.
ReadError ==
    /\ pc = "read"
    /\ takeLeft > 0
    /\ Finish("Io")
    /\ UNCHANGED <<api, limits, src, pos, takeLeft, bufLen, payload, outLen,
                   normVars>>

\* read_to_end ends at the first zero-length read: Take's limit is used up,
\* or the source signals end-of-stream (for good when pos = total, for now
\* when it would yield more later).
ReadEnd ==
    /\ pc = "read"
    /\ takeLeft = 0 \/ pos = src.eofAt
    /\ pc' = "check"
    /\ UNCHANGED <<api, limits, src, pos, takeLeft, bufLen, payload, outLen,
                   result, normVars>>

\* if input_binary.len() as u64 == incremented_limit { Err(InputLimitExceeded)? }
CheckInputLimit ==
    /\ pc = "check"
    /\ IF InputOverLimit(bufLen, limits)
          THEN Finish("InputLimitExceeded")
          ELSE pc' = "extract" /\ UNCHANGED result
    /\ UNCHANGED <<api, limits, src, pos, takeLeft, bufLen, payload, outLen,
                   normVars>>

\* raw_auditable_data(&input_binary)?
ExtractSegment ==
    /\ pc = "extract"
    /\ \/ /\ Finish(ErrorFromExtract)
          /\ UNCHANGED payload
       \/ /\ \E p \in Payloads(bufLen) : payload' = p
          /\ pc' = "precheck"
          /\ UNCHANGED result
    /\ UNCHANGED <<api, limits, src, pos, takeLeft, bufLen, outLen, normVars>>

\* if compressed_audit_data.len() > limit { Err(OutputLimitExceeded)?; }
PreCheck ==
    /\ pc = "precheck"
    /\ IF PayloadOverLimit(payload, limits)
          THEN Finish("OutputLimitExceeded")
          ELSE pc' = "inflate" /\ UNCHANGED result
    /\ UNCHANGED <<api, limits, src, pos, takeLeft, bufLen, payload, outLen,
                   normVars>>

\* decompress_to_vec_zlib_with_limit: the decompressor produces k more bytes,
\* never holding more than the limit.
InflateStep ==
    /\ pc = "inflate"
    /\ \E k \in 1 .. (Min(payload.dlen, InflateLimit(limits)) - outLen) :
          outLen' = outLen + k
    /\ UNCHANGED <<api, limits, src, pc, pos, takeLeft, bufLen, payload,
                   result, normVars>>

\* The stream ended: Ok(decompressed bytes).
InflateDone ==
    /\ pc = "inflate"
    /\ payload.valid
    /\ outLen = payload.dlen
    /\ Finish("Ok")
    /\ UNCHANGED <<api, limits, src, pos, takeLeft, bufLen, payload, outLen,
                   normVars>>

\* More output is due and the limit is reached: the decompressor stops.
InflateLimitHit ==
    /\ pc = "inflate"
    /\ payload.dlen > outLen
    /\ outLen >= InflateLimit(limits)
    /\ Finish(ErrorFromInflate("LimitExceeded"))
    /\ UNCHANGED <<api, limits, src, pos, takeLeft, bufLen, payload, outLen,
                   normVars>>

\* The stream is corrupt: the decompressor fails wherever it finds out.
InflateCorrupt ==
    /\ pc = "inflate"
    /\ ~payload.valid
    /\ Finish(ErrorFromInflate("CorruptStream"))
    /\ UNCHANGED <<api, limits, src, pos, takeLeft, bufLen, payload, outLen,
                   normVars>>

NextExtract ==
    \/ ReadChunk
    \/ ReadAllocFail
    \/ ReadError
    \/ ReadEnd
    \/ CheckInputLimit
    \/ ExtractSegment
    \/ PreCheck
    \/ InflateStep
    \/ InflateDone
    \/ InflateLimitHit
    \/ InflateCorrupt

SpecExtract == InitExtract /\ [][NextExtract]_vars

----------------------------------------------------------------------------
(* auditable-serde: From<&cargo_metadata::Metadata> for RawVersionInfo *)

\* Most edges a resolve graph is given.
MaxEdges == 3

\* Package identifiers (PackageId.repr), opaque and totally ordered.
NodeIds == {1, 2, 3}

\* Package names and versions, each ordered as its strings are.
NameSet == {1, 2}

VersionTables == {[i \in NodeIds |-> i], [i \in NodeIds |-> 4 - i]}

\* The dep_kinds lists an edge carries.  A cargo older than 1.41 reports
\* none on any edge; a newer one reports at least one on every edge.
TaggedLists ==
    {<<"Development">>, <<"Build">>, <<"Normal">>,
     <<"Development", "Normal">>}

LegacyLists == {<<>>}

\* dep_kinds of an absent edge; Option::None of resolve and of root (an
\* Option is a sequence of at most one element).
NoEdge == <<"NoEdge">>
None == <<>>
Some(x) == <<x>>
Unwrap(o) == o[1]

KindRank_BuildStrongest(k) ==
    CASE k = "Development" -> 0
      [] k = "Build" -> 2
      [] k = "Runtime" -> 1

\* The declaration order of PrivateDepKind, which derive(Ord) compares by.
KindRank(k) ==
    CASE k = "Development" -> 0
      [] k = "Build" -> 1
      [] k = "Runtime" -> 2

\* impl From<&cargo_metadata::DependencyKind> for PrivateDepKind
PrivateFromCargoKind(kind) ==
    CASE kind = "Normal" -> "Runtime"
      [] kind = "Development" -> "Development"
      [] kind = "Build" -> "Build"

\* impl From<PrivateDepKind> for DependencyKind; "Panic" is the panic!.
PublicFromPrivateKind(priv_kind) ==
    CASE priv_kind = "Development" -> "Panic"
      [] priv_kind = "Build" -> "Build"
      [] priv_kind = "Runtime" -> "Runtime"

RECURSIVE MaxKind(_)
\* Iterator::max over the mapped kinds; "None" on an empty list.
MaxKind(deps) ==
    IF deps = <<>> THEN "None"
    ELSE LET first == PrivateFromCargoKind(Head(deps))
             rest == MaxKind(Tail(deps))
         IN  IF rest = "None" THEN first
             ELSE IF KindRank(rest) >= KindRank(first) THEN rest ELSE first

StrongestDepKind_First(deps) ==
    IF deps = <<>> THEN "Runtime" ELSE PrivateFromCargoKind(Head(deps))

\* fn strongest_dep_kind
StrongestDepKind(deps) ==
    IF MaxKind(deps) = "None" THEN "Runtime" ELSE MaxKind(deps)

\* Ord::cmp on two ordered values.
Cmp(a, b) == IF a < b THEN "Less" ELSE IF a = b THEN "Equal" ELSE "Greater"

PackageCmp_NoIdTieBreak(a, b) == Cmp(a.name, b.name)

\* The closure given to packages.sort_unstable_by
PackageCmp(a, b) ==
    LET names_order == Cmp(a.name, b.name)
        versions_order == Cmp(a.name, b.name)
    IN  IF names_order # "Equal" THEN names_order
        ELSE IF versions_order # "Equal" THEN versions_order
        ELSE Cmp(a.id, b.id)

RECURSIVE InsertPackage(_, _)
InsertPackage(x, s) ==
    IF s = <<>> THEN <<x>>
    ELSE IF PackageCmp(x, Head(s)) = "Less" THEN <<x>> \o s
    ELSE <<Head(s)>> \o InsertPackage(x, Tail(s))

RECURSIVE SortPackages(_)
\* packages.sort_unstable_by(..): elements the closure calls Equal keep
\* whatever order the slice had.
SortPackages(s) ==
    IF s = <<>> THEN <<>> ELSE InsertPackage(Head(s), SortPackages(Tail(s)))

RECURSIVE InsertIndex(_, _)
InsertIndex(x, s) ==
    IF s = <<>> THEN <<x>>
    ELSE IF x < Head(s) THEN <<x>> \o s
    ELSE <<Head(s)>> \o InsertIndex(x, Tail(s))

SortIndices_Unsorted(s) == s

RECURSIVE SortIndices(_)
\* package.dependencies.sort_unstable()
SortIndices(s) ==
    IF s = <<>> THEN <<>> ELSE InsertIndex(Head(s), SortIndices(Tail(s)))

\* HashMap::insert / entry(..).or_insert(..).extend_from_slice(..)
MapPut(m, k, v) ==
    IF k \in DOMAIN m THEN [m EXCEPT ![k] = v] ELSE m @@ (k :> v)

MapExtend(m, k, v) ==
    IF k \in DOMAIN m THEN [m EXCEPT ![k] = @ \o v] ELSE m @@ (k :> v)

EmptyMap == [k \in {} |-> 0]

RECURSIVE ExtendAll(_, _)
\* for dep in node.deps.iter() { entry(dep.pkg).extend(dep.dep_kinds) }
ExtendAll(m, deps) ==
    IF deps = <<>> THEN m
    ELSE ExtendAll(MapExtend(m, Head(deps).pkg, Head(deps).dep_kinds),
                   Tail(deps))

RECURSIVE CollectDepKinds(_, _)
\* for node in resolve.nodes.iter() { for dep in node.deps.iter() {..} }
CollectDepKinds(m, nodes) ==
    IF nodes = <<>> THEN m
    ELSE CollectDepKinds(ExtendAll(m, Head(nodes).deps), Tail(nodes))

RECURSIVE IndexPackages(_, _)
\* let mut id_to_package = HashMap::new(); for p in packages { insert }
IndexPackages(m, packages) ==
    IF packages = <<>> THEN m
    ELSE IndexPackages(MapPut(m, Head(packages).id, Head(packages)),
                       Tail(packages))

\* The orders in which a HashMap with these keys may be iterated.
IterationOrders(keys) ==
    {o \in [1 .. Cardinality(keys) -> keys] :
        \A i, j \in 1 .. Cardinality(keys) : i # j => o[i] # o[j]}

MissingKey == [ok |-> FALSE, val |-> <<>>]
Found(v) == [ok |-> TRUE, val |-> v]

RECURSIVE TranslateDeps(_, _, _)
\* for dep in node.dependencies.iter(): MissingKey when a map has no such
\* key (Index on a HashMap panics).
TranslateDeps(dependencies, id_to_dep_kinds, id_to_index) ==
    IF dependencies = <<>> THEN Found(<<>>)
    ELSE LET dep_id == Head(dependencies)
             rest == TranslateDeps(Tail(dependencies), id_to_dep_kinds,
                                   id_to_index)
         IN  IF dep_id \notin DOMAIN id_to_dep_kinds THEN MissingKey
             ELSE IF id_to_dep_kinds[dep_id] = "Development" THEN rest
             ELSE IF dep_id \notin DOMAIN id_to_index THEN MissingKey
             ELSE IF ~rest.ok THEN MissingKey
             ELSE Found(<<id_to_index[dep_id]>> \o rest.val)

RECURSIVE FillDependencies(_, _, _, _)
\* The loop "Fill in dependency info" over resolve.nodes.
FillDependencies(packages, nodes, id_to_dep_kinds, id_to_index) ==
    IF nodes = <<>> \/ ~packages.ok THEN packages
    ELSE LET node == Head(nodes)
             pushed == TranslateDeps(node.dependencies, id_to_dep_kinds,
                                     id_to_index)
             filled ==
                IF node.id \notin DOMAIN id_to_index THEN packages
                ELSE IF ~pushed.ok THEN MissingKey
                ELSE Found([packages.val EXCEPT
                              ![id_to_index[node.id] + 1].dependencies =
                                  SortIndices(@ \o pushed.val)])
         IN  FillDependencies(filled, Tail(nodes), id_to_dep_kinds,
                              id_to_index)

Panicked(where) ==
    [status |-> "Panic", at |-> where, packages |-> <<>>,
     id_to_index |-> EmptyMap]

\* fn from(metadata: &cargo_metadata::Metadata) -> RawVersionInfo, with the
\* order in which id_to_package.values() comes out.
FromMetadata(md, values_order) ==
    LET id_to_package == IndexPackages(EmptyMap, md.packages) IN
    IF md.resolve = None THEN Panicked("resolve.unwrap")
    ELSE
    LET collected == CollectDepKinds(EmptyMap, Unwrap(md.resolve).nodes)
        merged == [k \in DOMAIN collected |-> StrongestDepKind(collected[k])]
    IN
    IF Unwrap(md.resolve).root = None THEN Panicked("root.unwrap")
    ELSE
    LET id_to_dep_kinds == MapPut(merged, Unwrap(Unwrap(md.resolve).root), "Runtime") IN
    IF \E id \in DOMAIN id_to_package : id \notin DOMAIN id_to_dep_kinds
    THEN Panicked("id_to_dep_kinds[package_id]")
    ELSE
    LET values == [i \in DOMAIN values_order |-> id_to_package[values_order[i]]]
        kept == SelectSeq(values,
                    LAMBDA p : id_to_dep_kinds[p.id] # "Development")
        sorted == SortPackages(kept)
        id_to_index == [id \in {sorted[i].id : i \in DOMAIN sorted} |->
                          (CHOOSE i \in DOMAIN sorted : sorted[i].id = id) - 1]
        converted == [i \in DOMAIN sorted |->
                        [name |-> sorted[i].name,
                         version |-> sorted[i].version,
                         kind |-> PublicFromPrivateKind(
                                      id_to_dep_kinds[sorted[i].id]),
                         dependencies |-> <<>>]]
    IN
    IF \E i \in DOMAIN converted : converted[i].kind = "Panic"
    THEN Panicked("PrivateDepKind::Development.into")
    ELSE
    LET filled == FillDependencies(Found(converted), Unwrap(md.resolve).nodes,
                                   id_to_dep_kinds, id_to_index)
    IN
    IF ~filled.ok THEN Panicked("map[dep_id]")
    ELSE [status |-> "Ok", at |-> "", packages |-> filled.val,
          id_to_index |-> id_to_index]

\* The raw graphs tried: each ordered pair of distinct identifiers carries
\* no edge or one edge with its dep_kinds, at most MaxEdges edges in all.
Pairs == {pr \in NodeIds \X NodeIds : pr[1] # pr[2]}

EdgeCount(g) == Cardinality({pr \in Pairs : g[pr] # NoEdge})

Graphs ==
    {g \in [Pairs -> TaggedLists \cup {NoEdge}] : EdgeCount(g) <= MaxEdges}
    \cup
    {g \in [Pairs -> LegacyLists \cup {NoEdge}] : EdgeCount(g) <= MaxEdges}

RECURSIVE SeqOfSet(_)
\* The elements of a set of numbers, ascending.
SeqOfSet(S) ==
    IF S = {} THEN <<>>
    ELSE LET least == CHOOSE x \in S : \A y \in S : x <= y
         IN  <<least>> \o SeqOfSet(S \ {least})

\* A resolve node of the metadata: its deps and, as cargo gives them, the
\* same identifiers again in dependencies.
NodeOf(id, g, order) ==
    LET dests == SelectSeq(order, LAMBDA d : d # id /\ g[<<id, d>>] # NoEdge)
    IN  [id |-> id,
         deps |-> [i \in DOMAIN dests |->
                     [pkg |-> dests[i], dep_kinds |-> g[<<id, dests[i]>>]]],
         dependencies |-> dests]

\* The metadata of a graph, its vectors filled in the given order.  Only
\* the identifiers in pkgs have a package and a resolve node.
MetadataOf(pkgs, names, versions, g, root, order) ==
    LET present == SelectSeq(order, LAMBDA id : id \in pkgs)
    IN  [packages |-> [i \in DOMAIN present |->
                         [id |-> present[i], name |-> names[present[i]],
                          version |-> versions[present[i]]]],
         resolve |-> Some([root |-> root,
                           nodes |-> [i \in DOMAIN present |->
                                        NodeOf(present[i], g, order)]])]

\* A well-rooted input: identifier 1 is the root package; identifier 3 may
\* lack a package and a node, so that edges to it dangle.
RootedInput(md) ==
    \E pkgs \in {NodeIds, NodeIds \ {3}}, names \in [NodeIds -> NameSet],
       versions \in VersionTables, g \in Graphs :
        md = MetadataOf(pkgs, names, versions, g, Some(1), SeqOfSet(NodeIds))

\* resolve.root is None.
RootlessInput(md) ==
    \E names \in [NodeIds -> NameSet], versions \in VersionTables,
       g \in {h \in Graphs : EdgeCount(h) <= 1} :
        md = MetadataOf(NodeIds, names, versions, g, None, SeqOfSet(NodeIds))

\* metadata.resolve is None (cargo metadata --no-deps).
UnresolvedInput(md) ==
    \E names \in [NodeIds -> NameSet], versions \in VersionTables :
        md = [packages |->
                 MetadataOf(NodeIds, names, versions,
                            [pr \in Pairs |-> NoEdge], None,
                            SeqOfSet(NodeIds)).packages,
              resolve |-> None]

ExtractIdle ==
    /\ api = "none"
    /\ limits = "none"
    /\ src = "none"
    /\ pc = "idle"
    /\ pos = 0
    /\ takeLeft = 0
    /\ bufLen = 0
    /\ payload = NoPayload
    /\ outLen = 0
    /\ result = "none"

InitNorm ==
    /\ \/ RootedInput(metadata)
       \/ RootlessInput(metadata)
       \/ UnresolvedInput(metadata)
    /\ npc = "start"
    /\ output = "none"
    /\ ExtractIdle

\* RawVersionInfo::from(&metadata)
Normalize ==
    /\ npc = "start"
    /\ \E values_order \in
            IterationOrders({metadata.packages[i].id :
                                i \in DOMAIN metadata.packages}) :
          output' = FromMetadata(metadata, values_order)
    /\ npc' = "done"
    /\ UNCHANGED <<metadata, extractVars>>

NextNorm == Normalize

SpecNorm == InitNorm /\ [][NextNorm]_vars

Init == InitExtract \/ InitNorm

Next == NextExtract \/ NextNorm

Spec == Init /\ [][Next]_vars

----------------------------------------------------------------------------
(* Claims about audit-info, checked under SpecExtract *)

ReadFailed == result \in {"Io", "Abort"}

\* C1 (as stated): every source whose total content is larger than
\* input_file_size makes get_compressed_audit_data fail with
\* InputLimitExceeded, also when the source signals end-of-stream early and
\* would yield more bytes later (sources whose read fails are left out).
C1_AnyDeliveryFails ==
    (api = "reader" /\ pc = "done" /\ ~ReadFailed
        /\ src.total > limits.input_file_size)
    => result = "InputLimitExceeded"

\* C1 (amended): every source that delivers more than input_file_size bytes
\* before its first zero-length read makes get_compressed_audit_data fail
\* with InputLimitExceeded unless the read itself fails, however the bytes
\* are chunked; the segment extractor is never asked, so the size error is
\* reported and not an extraction error.
C1_OverLimitBeforeEofFails ==
    (api = "reader" /\ src.eofAt > limits.input_file_size)
    => /\ pc \notin {"extract", "precheck", "inflate"}
       /\ ~payload.present
       /\ (pc = "done" /\ ~ReadFailed) => result = "InputLimitExceeded"

\* C1 witness: a source over the limit, which pauses only beyond the limit
\* and has more to give, was read and refused.
C1_Witness ==
    /\ api = "reader"
    /\ pc = "done"
    /\ limits.input_file_size > 0
    /\ src.eofAt > limits.input_file_size
    /\ src.total > src.eofAt
    /\ bufLen = limits.input_file_size + 1
    /\ result = "InputLimitExceeded"

\* C2: a source whose total content is at most input_file_size (exactly
\* input_file_size included, and input_file_size = usize::MAX, where the
\* increment saturates, included) never gets InputLimitExceeded, and no
\* call reads more than input_file_size + 1 bytes from its source.
C2_UnderLimitNeverRefused ==
    api = "reader"
    => /\ pos <= limits.input_file_size + 1
       /\ src.total <= limits.input_file_size
             => result # "InputLimitExceeded"

\* C2 witness: a source of exactly input_file_size bytes was read to its
\* end and the call went on to succeed.
C2_Witness ==
    /\ api = "reader"
    /\ pc = "done"
    /\ limits.input_file_size > 0
    /\ src.total = limits.input_file_size
    /\ bufLen = src.total
    /\ result = "Ok"

\* C3: a payload whose inflated size exceeds decompressed_json_size makes
\* raw_audit_info_from_reader and raw_audit_info_from_slice fail with
\* OutputLimitExceeded; the output never holds more than
\* decompressed_json_size bytes, so neither does a successful result.
C3_InflationBounded ==
    /\ outLen <= limits.decompressed_json_size
    /\ (pc = "done" /\ payload.present /\ payload.valid
            /\ payload.dlen > limits.decompressed_json_size)
       => result = "OutputLimitExceeded"
    /\ result = "Ok" => payload.dlen <= limits.decompressed_json_size

\* C3 witness: a valid payload small enough to pass the pre-check was
\* inflated up to the limit and then refused.
C3_Witness ==
    /\ pc = "done"
    /\ payload.present
    /\ payload.valid
    /\ payload.clen <= limits.decompressed_json_size
    /\ payload.dlen > limits.decompressed_json_size
    /\ outLen = limits.decompressed_json_size
    /\ outLen > 0
    /\ result = "OutputLimitExceeded"

\* The stages of the pipeline that have run, read off the state: the read
\* and the input-size check fill the buffer, the segment extractor sets the
\* payload (or fails with its own error), inflation holds output.
OverLimitInput == api = "reader" /\ bufLen > limits.input_file_size

ExtractorInvoked ==
    pc \in {"extract", "precheck", "inflate"}
        \/ payload.present \/ result = ErrorFromExtract

InflationStarted == pc = "inflate" \/ outLen > 0 \/ result = "Ok"

\* C11: the stages run in the order (1) bounded read and input-size check,
\* (2) segment extraction, (3) pre-check of the compressed payload length
\* against decompressed_json_size, (4) inflation, and a failure ends the
\* call: nothing runs after it. The segment extractor is never invoked on
\* an over-limit input, and inflation is never started on a payload whose
\* compressed length exceeds decompressed_json_size: the call returns
\* OutputLimitExceeded instead.
C11_StagesInOrder ==
    /\ pc \in {"read", "check"} => ~ExtractorInvoked
    /\ pc \in {"read", "check", "extract"} => ~payload.present
    /\ pc \in {"read", "check", "extract", "precheck"} => ~InflationStarted
    /\ InflationStarted => payload.present
    /\ result # "pending" => pc = "done" /\ ~ENABLED NextExtract
    /\ OverLimitInput => ~ExtractorInvoked
    /\ (pc = "done" /\ OverLimitInput) => result = "InputLimitExceeded"
    /\ result \in {"Io", "Abort", "InputLimitExceeded", ErrorFromExtract}
       => ~payload.present /\ ~InflationStarted
    /\ (payload.present /\ payload.clen > limits.decompressed_json_size)
       => /\ ~InflationStarted
          /\ pc = "done" => result = "OutputLimitExceeded"

\* C11 witness: a reader call whose input passed the size check and whose
\* extracted payload is longer than decompressed_json_size was refused by
\* the pre-check, no output having been inflated.
C11_Witness ==
    /\ api = "reader"
    /\ pc = "done"
    /\ bufLen > 0
    /\ bufLen <= limits.input_file_size
    /\ payload.present
    /\ payload.valid
    /\ payload.dlen > 0
    /\ payload.clen > limits.decompressed_json_size
    /\ outLen = 0
    /\ result = "OutputLimitExceeded"

----------------------------------------------------------------------------
(* Claims about auditable-serde, checked under SpecNorm *)

Converted == npc = "done" /\ output.status = "Ok"

PkgIds == {metadata.packages[i].id : i \in DOMAIN metadata.packages}

PackageOf(md, id) ==
    md.packages[CHOOSE i \in DOMAIN md.packages : md.packages[i].id = id]

RootId == Unwrap(Unwrap(metadata.resolve).root)

\* The edges of the raw graph: [from, to, dep_kinds].
EdgesOf(md) ==
    LET nodes == Unwrap(md.resolve).nodes
    IN  UNION {{[from |-> nodes[i].id, to |-> nodes[i].deps[j].pkg,
                 dep_kinds |-> nodes[i].deps[j].dep_kinds] :
                    j \in DOMAIN nodes[i].deps} : i \in DOMAIN nodes}

RawEdges == EdgesOf(metadata)

EdgesInto(id) == {e \in RawEdges : e.to = id}

OutNeighbours(id) == {e.to : e \in {x \in RawEdges : x.from = id}}

\* The tags of an edge: Normal is the Runtime tag.
TagsOf(e) ==
    {IF e.dep_kinds[k] = "Normal" THEN "Runtime" ELSE e.dep_kinds[k] :
        k \in DOMAIN e.dep_kinds}

TagsInto(id) == UNION {TagsOf(e) : e \in EdgesInto(id)}

\* A development-tagged edge carries the Development tag and no other.
IsDevelopmentEdge(e) == TagsOf(e) = {"Development"}

\* Development < Build < Runtime
Strength(tag) ==
    IF tag = "Development" THEN 0 ELSE IF tag = "Build" THEN 1 ELSE 2

StrongestOf(tags) ==
    CHOOSE k \in tags : \A t \in tags : Strength(t) <= Strength(k)

Emitted(out) == DOMAIN out.id_to_index

PackageAt(out, id) == out.packages[out.id_to_index[id] + 1]

IdAt(out, i) == CHOOSE id \in Emitted(out) : out.id_to_index[id] = i - 1

InsertionOrders == IterationOrders(NodeIds)

RECURSIVE ReorderBy(_, _, _)
\* The elements of seq, whose keys are keys, in the order the keys have in
\* order.
ReorderBy(seq, keys, order) ==
    IF order = <<>> THEN <<>>
    ELSE LET at == {i \in DOMAIN seq : keys[i] = Head(order)}
         IN  (IF at = {} THEN <<>> ELSE <<seq[CHOOSE i \in at : TRUE]>>)
                 \o ReorderBy(seq, keys, Tail(order))

\* The same raw graph with its packages, nodes and edges inserted in
\* another order.
Reordered(md, order) ==
    [packages |-> ReorderBy(md.packages,
                            [i \in DOMAIN md.packages |-> md.packages[i].id],
                            order),
     resolve |->
        IF md.resolve = None THEN None
        ELSE LET r == Unwrap(md.resolve)
                 nodes == [i \in DOMAIN r.nodes |->
                            [id |-> r.nodes[i].id,
                             deps |-> ReorderBy(r.nodes[i].deps,
                                        [j \in DOMAIN r.nodes[i].deps |->
                                            r.nodes[i].deps[j].pkg], order),
                             dependencies |->
                                ReorderBy(r.nodes[i].dependencies,
                                          r.nodes[i].dependencies, order)]]
             IN  Some([root |-> r.root,
                       nodes |-> ReorderBy(nodes,
                                    [i \in DOMAIN nodes |-> nodes[i].id],
                                    order)])]

\* C4: in the output, a package all of whose incoming edges are
\* development-tagged is absent; a package with at least one incoming edge
\* that is not is present, with the strongest kind among the tags of its
\* incoming edges; no emitted package has a Development kind, and the
\* conversion of Development to the public kind never panics.
C4_DevelopmentOnlyExcluded ==
    npc = "done"
    => /\ output.at # "PrivateDepKind::Development.into"
       /\ output.status = "Ok"
          => /\ \A i \in DOMAIN output.packages :
                    output.packages[i].kind \in {"Build", "Runtime"}
             /\ \A id \in PkgIds \ {RootId} :
                    /\ (EdgesInto(id) # {}
                            /\ \A e \in EdgesInto(id) : IsDevelopmentEdge(e))
                       => id \notin Emitted(output)
                    /\ (\E e \in EdgesInto(id) : ~IsDevelopmentEdge(e))
                       => /\ id \in Emitted(output)
                          /\ PackageAt(output, id).kind =
                                IF TagsInto(id) = {} THEN "Runtime"
                                ELSE StrongestOf(TagsInto(id))

\* C4 witness: an output without a package that only a development edge
\* points at, and with a package that a development edge and a Runtime edge
\* point at.
C4_Witness ==
    /\ Converted
    /\ \E id \in PkgIds \ {RootId} :
          /\ EdgesInto(id) # {}
          /\ \A e \in EdgesInto(id) : IsDevelopmentEdge(e)
          /\ id \notin Emitted(output)
    /\ \E id \in PkgIds \ {RootId} :
          /\ \E e \in EdgesInto(id) : IsDevelopmentEdge(e)
          /\ \E e \in EdgesInto(id) : "Runtime" \in TagsOf(e)
          /\ id \in Emitted(output)

KindsAreStrongest(out) ==
    out.status = "Ok"
    => /\ RootId \in PkgIds
          => /\ RootId \in Emitted(out)
             /\ PackageAt(out, RootId).kind = "Runtime"
       /\ \A id \in Emitted(out) \ {RootId} :
             TagsInto(id) # {}
             => PackageAt(out, id).kind = StrongestOf(TagsInto(id))

\* C5: every emitted package other than the root has the strongest tag
\* (Development < Build < Runtime) among the tags of all edges pointing at
\* it, in whatever order the edges are inserted; the root is emitted as
\* Runtime.
C5_StrongestKindWins ==
    npc = "done"
    => /\ KindsAreStrongest(output)
       /\ \A order \in InsertionOrders :
             KindsAreStrongest(
                 FromMetadata(Reordered(metadata, order), SeqOfSet(PkgIds)))

\* C5 witness: a package reached by a Build edge from one package and by a
\* Runtime edge from another is emitted as Runtime.
C5_Witness ==
    /\ Converted
    /\ \E id \in Emitted(output) \ {RootId} :
          /\ \E e \in EdgesInto(id) : TagsOf(e) = {"Build"}
          /\ \E e \in EdgesInto(id) : TagsOf(e) = {"Runtime"}
          /\ PackageAt(output, id).kind = "Runtime"

\* C6: the emitted packages are sorted by name, then by version, then by
\* identifier: of two packages with one name and two versions, the one with
\* the smaller version comes first, whatever their identifiers.
C6_SortedByNameVersionId ==
    Converted
    => \A i, j \in DOMAIN output.packages :
          i < j
          => LET a == PackageOf(metadata, IdAt(output, i))
                 b == PackageOf(metadata, IdAt(output, j))
             IN  \/ a.name < b.name
                 \/ a.name = b.name /\ a.version < b.version
                 \/ a.name = b.name /\ a.version = b.version /\ a.id < b.id

SameForAllIterations(md) ==
    \A values_order \in IterationOrders(PkgIds) :
        FromMetadata(md, values_order) = output

\* C7: the same raw graph, with its packages, nodes and edges inserted in
\* any order and the hash map iterated in any order, is converted to the
\* same package list with the same index assignment and the same
\* dependencies.
C7_Deterministic ==
    npc = "done"
    => \A order \in InsertionOrders :
          SameForAllIterations(Reordered(metadata, order))

\* C7 witness: an output with three packages, two of them of one name, and
\* a package with two dependencies.
C7_Witness ==
    /\ Converted
    /\ Len(output.packages) = 3
    /\ \E i, j \in DOMAIN output.packages :
          i # j /\ output.packages[i].name = output.packages[j].name
    /\ \E i \in DOMAIN output.packages :
          Len(output.packages[i].dependencies) = 2

\* C8: every package of the output stands at the index its identifier is
\* assigned; its dependencies are exactly the indices, each below the
\* length of the list, of the emitted packages it has an edge to, in
\* ascending order; edges to dropped packages are left out.
C8_DependenciesAreIndices ==
    Converted
    => /\ {output.id_to_index[id] : id \in Emitted(output)}
             = 0 .. Len(output.packages) - 1
       /\ Cardinality(Emitted(output)) = Len(output.packages)
       /\ \A id \in Emitted(output) :
             LET pkg == PackageAt(output, id)
                 deps == pkg.dependencies
                 expected == {output.id_to_index[d] :
                                d \in OutNeighbours(id) \cap Emitted(output)}
             IN  /\ pkg.name = PackageOf(metadata, id).name
                 /\ pkg.version = PackageOf(metadata, id).version
                 /\ {deps[k] : k \in DOMAIN deps} = expected
                 /\ \A k \in DOMAIN deps : deps[k] < Len(output.packages)
                 /\ \A k, l \in DOMAIN deps : k < l => deps[k] < deps[l]

\* C8 witness: a package with an edge to a dropped package and edges to two
\* emitted packages whose indices are in the opposite order of their
\* identifiers.
C8_Witness ==
    /\ Converted
    /\ \E id \in Emitted(output) :
          /\ Len(PackageAt(output, id).dependencies) = 2
          /\ \E a, b \in OutNeighbours(id) \cap Emitted(output) :
                a < b /\ output.id_to_index[a] > output.id_to_index[b]

\* Every package but the root has an edge pointing at it.
NoOrphans == \A id \in PkgIds \ {RootId} : EdgesInto(id) # {}

Malformed ==
    \/ metadata.resolve = None
    \/ Unwrap(metadata.resolve).root = None
    \/ /\ \E e \in RawEdges : e.to \notin PkgIds
       /\ NoOrphans

\* C9: on a malformed raw graph (no resolve data, no root, or an edge to an
\* identifier that has no package, in a graph that is well-formed
\* otherwise) the conversion returns an InconsistentGraph error: it neither
\* panics nor answers with a package list.
C9_MalformedGraphIsAnError ==
    (npc = "done" /\ Malformed) => output.status = "InconsistentGraph"

RECURSIVE ReachableFrom(_, _)
ReachableFrom(S, edges) ==
    LET next == S \cup {e.to : e \in {x \in edges : x.from \in S}}
    IN  IF next = S THEN S ELSE ReachableFrom(next, edges)

\* C10: a package that the root reaches, but only through development-tagged
\* edges (every path to it from the root has one), is absent from the
\* output, also when the edge pointing directly at it is a Build or Runtime
\* edge.
C10_TransitivelyDevOnlyAbsent ==
    Converted
    => \A id \in ReachableFrom({RootId}, RawEdges) :
          id \notin ReachableFrom({RootId},
                        {e \in RawEdges : ~IsDevelopmentEdge(e)})
          => id \notin Emitted(output)

\* Every edge ends at a node of the node set and the root is given.
WellFormed ==
    /\ metadata.resolve # None
    /\ Unwrap(metadata.resolve).root # None
    /\ RootId \in PkgIds
    /\ \A e \in RawEdges : e.from \in PkgIds /\ e.to \in PkgIds

\* C12: on a well-formed raw graph the conversion completes with a package
\* list, and every node that no edge points at is emitted with kind Runtime,
\* the declared root or not (a second entry node that nothing depends on
\* included); it does not make the conversion fail.
C12_EntryNodesAreRuntime ==
    (npc = "done" /\ WellFormed)
    => /\ output.status = "Ok"
       /\ \A id \in PkgIds :
             EdgesInto(id) = {}
             => /\ id \in Emitted(output)
                /\ PackageAt(output, id).kind = "Runtime"

=============================================================================
